---- MODULE Spec2Model ----
(***************************************************************************)
(* Model of the guideline PDF batch downloader:                            *)
(*   download_pdfs_latest copy.py  (checkpointed batch loop, resolver)     *)
(*   download_functions.py         (source strategies, downloader)         *)
(*                                                                         *)
(* Titles are sequences of characters, URLs are sequences of tokens (a     *)
(* token is a substring the code tests for, or a piece of text between     *)
(* such substrings).  The browser driver, the HTTP client and the file     *)
(* system are the environment: every call to them draws its outcome from   *)
(* a small set.                                                            *)
(***************************************************************************)
EXTENDS Integers, Sequences, FiniteSets, TLC

VARIABLES
    inputFile,      \* content of INPUT_FILE: the list of titles
    diskCp,         \* CHECKPOINT_FILE on disk
    diskOut,        \* OUTPUT_FILE on disk
    fs,             \* OUTPUT_FOLDER: state of every destination folder
    pc,             \* position of the process in the script
    checkpoint_data,            \* in-memory checkpoint
    updated_guidelines_data,    \* in-memory record list
    idx,            \* position of the for loop in the record list
    category,       \* locals of get_category_and_pdf / the loop body
    pdf_url,
    pdf_saved_status,
    sessions,       \* browser sessions opened by this process and not quit
    run,            \* number of the current run (process start)
    calls,          \* history: strategies invoked by the resolver call in progress
    resolved,       \* history: titles the resolver was invoked for in this run
    downloaded,     \* history: titles the downloader was invoked for in this run
    startCp,        \* history: the checkpoint as loaded at the start of this run
    startOut,       \* history: the record list as loaded at the start of this run
    prevDone,       \* history: the previous run fell off the end of the loop
    prevOut,        \* history: OUTPUT_FILE when the previous run ended
    tripText,       \* history: the title search_trip_database read off the result card
    fcall           \* a single call of a function of download_functions.py

vars == <<inputFile, diskCp, diskOut, fs, pc, checkpoint_data,
          updated_guidelines_data, idx, category, pdf_url, pdf_saved_status,
          sessions, run, calls, resolved, downloaded, startCp,
          startOut, prevDone, prevOut, tripText, fcall>>

(***************************************************************************)
(* Bounds of the model.                                                    *)
(***************************************************************************)
MaxItems == 2
MaxRuns == 2
MaxFound == 4

(***************************************************************************)
(* Python values.                                                          *)
(***************************************************************************)
\* None, as a value of the same shape as a URL
None == <<"None">>
\* the empty string
EmptyStr == <<>>
\* truth value of a str-or-None in `if x:` / `if not x:`
Truthy(x) == x # None /\ x # EmptyStr

(***************************************************************************)
(* Titles and the destination path derived from them.                      *)
(***************************************************************************)
T1 == <<"A", " ", "B">>
T2 == <<"A", ":", "_", "/", "B">>
T3 == <<"C">>
TitlePool == {T1, T2, T3}

RECURSIVE Replace(_, _, _)
\* str.replace(old, new) for a one-character old; new is a string
Replace(s, old, new) ==
    IF s = <<>> THEN <<>>
    ELSE (IF Head(s) = old THEN new ELSE <<Head(s)>>) \o Replace(Tail(s), old, new)

\* title.replace(" ", "_").replace(":", "").replace("/", "")
Sanitize(title) == Replace(Replace(Replace(title, " ", <<"_">>), ":", <<>>), "/", <<>>)

\* folder_name: os.path.join(OUTPUT_FOLDER, <sanitised title>); the folder is
\* identified by its last component, the PDF inside it has the same stem
FolderOf(title) == Sanitize(title)

FolderNames == {FolderOf(t) : t \in TitlePool}

(***************************************************************************)
(* String operations of the code, on sequences.                            *)
(***************************************************************************)
\* str.lower() on one character of a title
LowerChar(c) ==
    CASE c = "A" -> "a"
      [] c = "B" -> "b"
      [] c = "C" -> "c"
      [] c = "Z" -> "z"
      [] OTHER -> c

\* str.lower() on one token of a URL
LowerTok(t) ==
    CASE t = "LOGIN" -> "login"
      [] t = ".PDF" -> ".pdf"
      [] t = "/PMC" -> "/pmc"
      [] OTHER -> t

LowerTitle(s) == [i \in 1..Len(s) |-> LowerChar(s[i])]
LowerUrl(u) == [i \in 1..Len(u) |-> LowerTok(u[i])]

RECURSIVE LStrip(_)
LStrip(s) == IF s # <<>> /\ Head(s) = " " THEN LStrip(Tail(s)) ELSE s

RECURSIVE RStrip(_, _)
\* str.rstrip(c)
RStrip(s, c) ==
    IF s # <<>> /\ s[Len(s)] = c THEN RStrip(SubSeq(s, 1, Len(s) - 1), c) ELSE s

\* str.strip()
Strip(s) == RStrip(LStrip(s), " ")

\* tok in url (the tested substrings are whole tokens of the model's URLs)
Contains(u, tok) == \E i \in 1..Len(u) : u[i] = tok

\* url.endswith(tok)
EndsWith(u, tok) == u # <<>> /\ u[Len(u)] = tok

\* tokens whose text begins with "/"
SlashTokens == {"/", "/pdf", "/PMC", "/articles", "/login", "/guide"}

RECURSIVE SplitFirst(_, _)
\* url.split(tok)[0]
SplitFirst(u, tok) ==
    IF u = <<>> \/ Head(u) = tok THEN <<>>
    ELSE <<Head(u)>> \o SplitFirst(Tail(u), tok)

\* a function's outcome: it returns val, or an exception leaves it
Return(v) == [exc |-> FALSE, val |-> v]
Raise == [exc |-> TRUE, val |-> None]

(***************************************************************************)
(* download_functions.py: page extractors.  fault names the driver call    *)
(* that raises ("none": no call raises); href is the attribute read.       *)
(***************************************************************************)
ExtractFaults == {"none", "get", "wait", "get_attribute"}

extract_pmc_pdf(pmc_url, fault, href) ==
    IF fault = "get" THEN Raise
    ELSE IF fault # "none" THEN Return(None)
    ELSE IF href # <<>> /\ Head(href) = "/pdf"
         THEN Return(SplitFirst(pmc_url, "/PMC") \o href)
         ELSE Return(href)

extract_pdf_from_webpage(webpage_url, fault, href) ==
    IF fault = "get" THEN Raise
    ELSE IF fault # "none" THEN Return(None)
    ELSE IF href # <<>> /\ Head(href) \in SlashTokens
         THEN Return(RStrip(webpage_url, "/") \o href)
         ELSE Return(href)

(***************************************************************************)
(* download_functions.py: search_ebm_portal                                *)
(***************************************************************************)
PortalFaults == {"none", "get", "wait_result", "click", "wait_pdf", "get_attribute"}

search_ebm_portal(fault, href) ==
    IF fault = "get" THEN Raise
    ELSE IF fault # "none" THEN Return(None)
    ELSE Return(href)

(***************************************************************************)
(* download_functions.py: search_trip_database.  The value returned is     *)
(* the pair <<category_label, pdf_link>>.                                  *)
(***************************************************************************)
TripFaults == {"none", "get", "wait_result", "find_title", "find_category",
               "find_pdf", "get_attribute"}

\* the title comparison left out
TitleMismatchNever(actual_title, expected_title) == FALSE

\* actual_title.lower() != expected_title.lower()
TitleMismatch(actual_title, expected_title) ==
    LowerTitle(actual_title) # LowerTitle(expected_title)

search_trip_database(expected_title, fault, title_text, category_text, pdf_hrefs) ==
    IF fault = "get" THEN Raise
    ELSE IF fault \in {"wait_result", "find_title"} THEN Return(<<None, None>>)
    ELSE IF TitleMismatch(Strip(title_text), expected_title)
         THEN Return(<<None, None>>)
    ELSE IF fault # "none" THEN Return(<<None, None>>)
    ELSE Return(<<Strip(category_text),
                  IF pdf_hrefs # <<>> THEN pdf_hrefs[1] ELSE None>>)

(***************************************************************************)
(* download_functions.py: google_search_for_pdf                            *)
(***************************************************************************)
GoogleFaults == {"none", "get", "find_elements", "get_attribute"}

\* search_results[:3]
Top3(results) == SubSeq(results, 1, IF Len(results) < 3 THEN Len(results) ELSE 3)

\* set(href.split("#")[0] for result in search_results)
LinkSet(results) == {SplitFirst(Top3(results)[i], "#") : i \in 1..Len(Top3(results))}

\* list(set(...)): the elements of the set in an order Python chooses
Orderings(S) ==
    {f \in [1..Cardinality(S) -> S] : \A i, j \in 1..Cardinality(S) : i # j => f[i] # f[j]}

\* "login" in url.lower()
IsLogin(url) == Contains(LowerUrl(url), "login")
\* url.lower().endswith(".pdf")
IsPdf(url) == EndsWith(LowerUrl(url), ".pdf")
\* "pmc.ncbi.nlm.nih.gov" in url
IsPmc(url) == Contains(url, "pmc.ncbi.nlm.nih.gov")

RECURSIVE ScanLinks(_, _, _)
\* the for loop over links: the state is (pmc_url, webpage_url); the result is
\* [found |-> direct PDF or None, pmc_url, webpage_url]
ScanLinks(links, pmc_url, webpage_url) ==
    IF links = <<>> THEN [found |-> None, pmc_url |-> pmc_url, webpage_url |-> webpage_url]
    ELSE LET url == Head(links) IN
         IF IsLogin(url) THEN ScanLinks(Tail(links), pmc_url, webpage_url)
         ELSE IF IsPdf(url) THEN [found |-> url, pmc_url |-> pmc_url, webpage_url |-> webpage_url]
         ELSE ScanLinks(Tail(links),
                        IF IsPmc(url) THEN url ELSE pmc_url,
                        IF webpage_url = None THEN url ELSE webpage_url)

\* an exception leaving an extractor is caught by google_search_for_pdf's handler
Caught(outcome) == IF outcome.exc THEN Return(None) ELSE outcome

google_search_for_pdf(fault, links, xfault, xhref) ==
    IF fault = "get" THEN Raise
    ELSE IF fault # "none" THEN Return(None)
    ELSE LET scan == ScanLinks(links, None, None) IN
         IF scan.found # None THEN Return(scan.found)
         ELSE IF Truthy(scan.pmc_url)
              THEN Caught(extract_pmc_pdf(scan.pmc_url, xfault, xhref))
         ELSE IF Truthy(scan.webpage_url)
              THEN IF IsLogin(scan.webpage_url) THEN Return(None)
                   ELSE Caught(extract_pdf_from_webpage(scan.webpage_url, xfault, xhref))
         ELSE Return(None)

(***************************************************************************)
(* download_functions.py: download_pdf_file.  wget and requests are the    *)
(* outcomes of the two transfers; body is the size class of the response.  *)
(* The result is the value returned and the file written at save_path      *)
(* ("keep": save_path is left as it was).                                  *)
(***************************************************************************)
WgetOutcomes == {"ok", "raise"}
RequestsOutcomes == {"ok", "http_error", "request_exception", "open_error", "write_error"}
Bodies == {"empty_file", "file"}

\* the result of a call: the value returned, the file at save_path, the
\* transfers attempted in order, and whether an exception left the function
Downloaded(ret, file, attempts) ==
    [ret |-> ret, file |-> file, attempts |-> attempts, exc |-> FALSE]

\* download_pdf_file without response.raise_for_status()
download_pdf_fileNoStatus(wget, requests, body) ==
    IF wget = "ok" THEN Downloaded(TRUE, body, <<"wget">>)
    ELSE CASE requests \in {"ok", "http_error"} ->
                Downloaded(TRUE, body, <<"wget", "requests">>)
           [] requests = "write_error" ->
                Downloaded(FALSE, body, <<"wget", "requests">>)
           [] OTHER -> Downloaded(FALSE, "keep", <<"wget", "requests">>)

download_pdf_file(wget, requests, body) ==
    IF wget = "ok" THEN Downloaded(TRUE, body, <<"wget">>)
    ELSE CASE requests = "ok" -> Downloaded(TRUE, body, <<"wget", "requests">>)
           [] requests = "write_error" ->
                Downloaded(FALSE, body, <<"wget", "requests">>)
           [] OTHER -> Downloaded(FALSE, "keep", <<"wget", "requests">>)

(***************************************************************************)
(* download_pdfs_latest copy.py: files and records.                        *)
(***************************************************************************)
InSeq(x, s) == \E i \in 1..Len(s) : s[i] = x
Range(s) == {s[i] : i \in 1..Len(s)}

\* the distinct-title lists of at most MaxItems titles
InputLists ==
    UNION {{l \in [1..n -> TitlePool] : \A i, j \in 1..n : i # j => l[i] # l[j]}
           : n \in 0..MaxItems}

\* a record of INPUT_FILE: only the title; has: the keys pdf_saved and
\* pdf_link are present
InputRecord(t) == [title |-> t, has |-> FALSE, pdf_saved |-> FALSE, pdf_link |-> EmptyStr]

EmptyCheckpoint == [completed |-> <<>>, failed |-> <<>>]

\* load_checkpoint
load_checkpoint(file) ==
    IF file.exists THEN [completed |-> file.completed, failed |-> file.failed]
    ELSE EmptyCheckpoint

\* save_checkpoint writing the completed list only
save_checkpointCompleted(data) ==
    [exists |-> TRUE, completed |-> data.completed, failed |-> <<>>]

\* save_checkpoint
save_checkpoint(data) ==
    [exists |-> TRUE, completed |-> data.completed, failed |-> data.failed]

\* lines 90-95: resume from OUTPUT_FILE if it exists, else read INPUT_FILE
load_guidelines(out, inp) ==
    IF out.exists THEN out.data ELSE [i \in 1..Len(inp) |-> InputRecord(inp[i])]

\* line 103: the skip check of the loop
ShouldSkip(title, data) == InSeq(title, data.completed)

\* the next strategy is tried whatever the earlier one returned
NeedNextAlways(pdf_link) == TRUE

\* lines 75, 79: `if not pdf_link:` the next strategy is tried
NeedNext(pdf_link) == ~Truthy(pdf_link)

\* the cleanup guard with its negation lost
ShouldCleanupSaved(saved, folder_exists) == saved /\ folder_exists

\* line 125: the cleanup guard
ShouldCleanup(saved, folder_exists) == ~saved /\ folder_exists

\* os.makedirs(folder_name, exist_ok=True)
makedirs(state) == IF state = "absent" THEN "dir" ELSE state

\* driver.quit() left out
QuitMissing(n) == n

\* line 82: driver.quit()
Quit(n) == n - 1

Title == updated_guidelines_data[idx].title

ResolvingPcs == {"portal", "trip", "google", "quit"}
ItemPcs == ResolvingPcs \cup {"download", "record", "checkpoint", "output"}
RunningPcs == ItemPcs \cup {"start", "loop"}
EndedPcs == {"done", "aborted", "crashed"}

(***************************************************************************)
(* The environment of the batch specification.                             *)
(***************************************************************************)
PortalPdf == <<"https://", "guidelines.ebmportal.com", "/guide", ".pdf">>
TripPdf == <<"https://", "www.tripdatabase.com", "/guide", ".pdf">>
LoginLink == <<"https://", "x.org", "/", "login">>
PmcLink == <<"https://", "pmc.ncbi.nlm.nih.gov", "/articles", "/PMC", "123", "/">>
PageLink == <<"https://", "y.org", "/guide", ".html">>
DirectPdf == <<"https://", "z.org", "/guide", ".PDF", "#", "page=2">>
PmcPdf == <<"https://", "pmc.ncbi.nlm.nih.gov", "/pdf", "/guide", ".pdf">>

TitleTexts(expected) == {expected, LowerTitle(expected) \o <<" ">>, <<"Z">>}
CategoryTexts == {<<"G", " ">>}
TripHrefLists == {<<>>, <<TripPdf>>}
GoogleResults == {<<>>, <<LoginLink, PmcLink, PageLink>>, <<LoginLink, PageLink>>}
ExtractHrefs == {PmcPdf}
\* the responses of the batch specification have a body
BatchBodies == {"file"}

(***************************************************************************)
(* Initial state: the process has not started; no checkpoint, no output    *)
(* file, no destination folder.                                            *)
(***************************************************************************)
BatchInit ==
    /\ inputFile \in InputLists
    /\ diskCp = [exists |-> FALSE, completed |-> <<>>, failed |-> <<>>]
    /\ diskOut = [exists |-> FALSE, data |-> <<>>]
    /\ fs = [f \in FolderNames |-> "absent"]
    /\ pc = "start"
    /\ checkpoint_data = EmptyCheckpoint
    /\ updated_guidelines_data = <<>>
    /\ idx = 1
    /\ category = None
    /\ pdf_url = None
    /\ pdf_saved_status = FALSE
    /\ sessions = 0
    /\ run = 1
    /\ calls = <<>>
    /\ resolved = {}
    /\ downloaded = {}
    /\ startCp = EmptyCheckpoint
    /\ startOut = <<>>
    /\ prevDone = FALSE
    /\ prevOut = [exists |-> FALSE, data |-> <<>>]
    /\ tripText = None

\* no function is called on its own in the batch specifications
NoCall == [fn |-> "none"]

Init == BatchInit /\ fcall = NoCall

disk == <<inputFile, diskCp, diskOut, fs>>
locals == <<category, pdf_url, pdf_saved_status>>
history == <<calls, resolved, downloaded, startCp, startOut, prevDone, prevOut>>

\* lines 87-99: load the checkpoint and the record list
LoadState ==
    /\ pc = "start"
    /\ checkpoint_data' = load_checkpoint(diskCp)
    /\ updated_guidelines_data' = load_guidelines(diskOut, inputFile)
    /\ startCp' = checkpoint_data'
    /\ startOut' = updated_guidelines_data'
    /\ idx' = 1
    /\ pc' = "loop"
    /\ UNCHANGED <<disk, locals, sessions, run, calls, resolved,
                   downloaded, prevDone, prevOut>>
    /\ UNCHANGED <<tripText, fcall>>

\* lines 101-106: the title is skipped
SkipItem ==
    /\ pc = "loop"
    /\ idx <= Len(updated_guidelines_data)
    /\ ShouldSkip(Title, checkpoint_data)
    /\ idx' = idx + 1
    /\ UNCHANGED <<disk, pc, checkpoint_data, updated_guidelines_data, locals,
                   sessions, run, history>>
    /\ UNCHANGED <<tripText, fcall>>

\* line 140: the loop is over
Finish ==
    /\ pc = "loop"
    /\ idx > Len(updated_guidelines_data)
    /\ pc' = "done"
    /\ UNCHANGED <<disk, checkpoint_data, updated_guidelines_data, idx, locals,
                   sessions, run, history>>
    /\ UNCHANGED <<tripText, fcall>>

\* lines 108, 68, 71: get_category_and_pdf is entered, setup_selenium opens a session
SetupSelenium ==
    /\ pc = "loop"
    /\ idx <= Len(updated_guidelines_data)
    /\ ~ShouldSkip(Title, checkpoint_data)
    /\ resolved' = resolved \cup {Title}
    /\ calls' = <<>>
    /\ \/ /\ sessions' = sessions + 1
          /\ category' = None
          /\ pc' = "portal"
       \/ \* uc.Chrome raises: nothing catches it
          /\ pc' = "aborted"
          /\ UNCHANGED <<sessions, category>>
    /\ UNCHANGED <<disk, checkpoint_data, updated_guidelines_data, idx, pdf_url,
                   pdf_saved_status, run, downloaded, startCp, startOut,
                   prevDone, prevOut>>
    /\ tripText' = None
    /\ UNCHANGED fcall

\* an entry of the history: strategy s was invoked; an exception left it, or it
\* returned the pdf link url
Call(s, outcome, url) == [s |-> s, exc |-> outcome.exc, url |-> url]

\* line 72: Step 1, search_ebm_portal
PortalSearch ==
    /\ pc = "portal"
    /\ \E fault \in PortalFaults :
        LET out == search_ebm_portal(fault, PortalPdf) IN
        /\ calls' = Append(calls, Call("portal", out, out.val))
        /\ IF out.exc
           THEN pc' = "aborted" /\ UNCHANGED pdf_url
           ELSE /\ pdf_url' = out.val
                /\ pc' = IF NeedNext(out.val) THEN "trip" ELSE "quit"
    /\ UNCHANGED <<disk, checkpoint_data, updated_guidelines_data, idx, category,
                   pdf_saved_status, sessions, run, resolved, downloaded,
                   startCp, startOut, prevDone, prevOut>>
    /\ UNCHANGED <<tripText, fcall>>

\* lines 75-76: Step 2, search_trip_database
TripSearch ==
    /\ pc = "trip"
    /\ \E fault \in TripFaults, text \in TitleTexts(Title), cat \in CategoryTexts,
          hrefs \in TripHrefLists :
        LET out == search_trip_database(Title, fault, text, cat, hrefs) IN
        /\ tripText' = text
        /\ calls' = Append(calls, Call("trip", out,
                                       IF out.exc THEN None ELSE out.val[2]))
        /\ IF out.exc
           THEN pc' = "aborted" /\ UNCHANGED <<category, pdf_url>>
           ELSE /\ category' = out.val[1]
                /\ pdf_url' = out.val[2]
                /\ pc' = IF NeedNext(out.val[2]) THEN "google" ELSE "quit"
    /\ UNCHANGED <<disk, checkpoint_data, updated_guidelines_data, idx,
                   pdf_saved_status, sessions, run, resolved, downloaded,
                   startCp, startOut, prevDone, prevOut>>
    /\ UNCHANGED fcall

\* lines 79-80: Step 3, google_search_for_pdf
GoogleSearch ==
    /\ pc = "google"
    /\ \E fault \in GoogleFaults, results \in GoogleResults, xfault \in ExtractFaults,
          xhref \in ExtractHrefs :
        \E links \in Orderings(LinkSet(results)) :
        LET out == google_search_for_pdf(fault, links, xfault, xhref) IN
        /\ calls' = Append(calls, Call("google", out, out.val))
        /\ IF out.exc
           THEN pc' = "aborted" /\ UNCHANGED pdf_url
           ELSE pdf_url' = out.val /\ pc' = "quit"
    /\ UNCHANGED <<disk, checkpoint_data, updated_guidelines_data, idx, category,
                   pdf_saved_status, sessions, run, resolved, downloaded,
                   startCp, startOut, prevDone, prevOut>>
    /\ UNCHANGED <<tripText, fcall>>

\* lines 82-83: driver.quit(), return category, pdf_link
DriverQuit ==
    /\ pc = "quit"
    /\ sessions' = Quit(sessions)
    /\ calls' = <<>>
    /\ pc' = "download"
    /\ UNCHANGED <<disk, checkpoint_data, updated_guidelines_data, idx, locals,
                   run, resolved, downloaded, startCp, startOut, prevDone, prevOut>>
    /\ tripText' = None
    /\ UNCHANGED fcall

\* lines 109-119: the folder is created and the PDF downloaded, if a URL was resolved
\* the guard left out: the download is attempted for every item
HasUrlAlways(url) == TRUE

\* line 112: if pdf_url
HasUrl(url) == Truthy(url)

TryDownload ==
    /\ pc = "download"
    /\ IF HasUrl(pdf_url)
       THEN \E mk \in {"ok", "raise"}, wget \in WgetOutcomes,
               requests \in RequestsOutcomes, body \in BatchBodies :
            LET f == FolderOf(Title)
                out == download_pdf_file(wget, requests, body)
            IN  IF mk = "raise"
                THEN \* os.makedirs raises: caught at line 117
                     /\ pdf_saved_status' = FALSE
                     /\ UNCHANGED <<fs, downloaded>>
                ELSE /\ pdf_saved_status' = out.ret
                     /\ fs' = [fs EXCEPT ![f] = IF out.file = "keep"
                                                THEN makedirs(fs[f]) ELSE out.file]
                     /\ downloaded' = downloaded \cup {Title}
       ELSE /\ pdf_saved_status' = FALSE
            /\ UNCHANGED <<fs, downloaded>>
    /\ pc' = "record"
    /\ UNCHANGED <<inputFile, diskCp, diskOut, checkpoint_data,
                   updated_guidelines_data, idx, category, pdf_url, sessions,
                   run, calls, resolved, startCp, startOut, prevDone,
                   prevOut>>
    /\ UNCHANGED <<tripText, fcall>>

\* the record written with an empty pdf_link
RecordOfNoLink(title, saved, url) ==
    [title |-> title, has |-> TRUE, pdf_saved |-> saved, pdf_link |-> EmptyStr]

\* lines 122-123: guideline["pdf_saved"], guideline["pdf_link"]
RecordOf(title, saved, url) ==
    [title |-> title, has |-> TRUE, pdf_saved |-> saved,
     pdf_link |-> IF Truthy(url) THEN url ELSE EmptyStr]

\* lines 122-126: the record is updated in place, the folder of a failed item removed
RecordItem ==
    /\ pc = "record"
    /\ updated_guidelines_data' =
          [updated_guidelines_data EXCEPT ![idx] =
              RecordOf(Title, pdf_saved_status, pdf_url)]
    /\ fs' = IF ShouldCleanup(pdf_saved_status, fs[FolderOf(Title)] # "absent")
             THEN [fs EXCEPT ![FolderOf(Title)] = "absent"]
             ELSE fs
    /\ pc' = "checkpoint"
    /\ UNCHANGED <<inputFile, diskCp, diskOut, checkpoint_data, idx, locals,
                   sessions, run, history>>
    /\ UNCHANGED <<tripText, fcall>>

AppendOutcomeCompleted(data, title, saved) ==
    [data EXCEPT !.completed = Append(@, title)]

\* lines 128-131: the title is appended to completed or to failed
AppendOutcome(data, title, saved) ==
    IF saved
    THEN [data EXCEPT !.completed = Append(@, title)]
    ELSE [data EXCEPT !.failed = Append(@, title)]

\* lines 128-134: the title is appended to completed or failed, the checkpoint saved
CheckpointItem ==
    /\ pc = "checkpoint"
    /\ checkpoint_data' = AppendOutcome(checkpoint_data, Title, pdf_saved_status)
    /\ diskCp' = save_checkpoint(checkpoint_data')
    /\ pc' = "output"
    /\ UNCHANGED <<inputFile, diskOut, fs, updated_guidelines_data, idx, locals,
                   sessions, run, history>>
    /\ UNCHANGED <<tripText, fcall>>

\* lines 135-138: the record list is written to OUTPUT_FILE; next item
WriteOutput ==
    /\ pc = "output"
    /\ diskOut' = [exists |-> TRUE, data |-> updated_guidelines_data]
    /\ idx' = idx + 1
    /\ pc' = "loop"
    /\ UNCHANGED <<inputFile, diskCp, fs, checkpoint_data, updated_guidelines_data,
                   locals, sessions, run, history>>
    /\ UNCHANGED <<tripText, fcall>>

\* the process is terminated from outside: its memory is gone
Crash ==
    /\ pc \in RunningPcs
    /\ pc' = "crashed"
    /\ checkpoint_data' = EmptyCheckpoint
    /\ updated_guidelines_data' = <<>>
    /\ idx' = 1
    /\ category' = None
    /\ pdf_url' = None
    /\ pdf_saved_status' = FALSE
    /\ sessions' = 0
    /\ calls' = <<>>
    /\ resolved' = {}
    /\ downloaded' = {}
    /\ startCp' = EmptyCheckpoint
    /\ startOut' = <<>>
    /\ UNCHANGED <<disk, run, prevDone, prevOut>>
    /\ tripText' = None
    /\ UNCHANGED fcall

\* the operator starts the script again: a new process, the files as they are
Restart ==
    /\ pc \in EndedPcs
    /\ run < MaxRuns
    /\ run' = run + 1
    /\ pc' = "start"
    /\ checkpoint_data' = EmptyCheckpoint
    /\ updated_guidelines_data' = <<>>
    /\ idx' = 1
    /\ category' = None
    /\ pdf_url' = None
    /\ pdf_saved_status' = FALSE
    /\ sessions' = 0
    /\ calls' = <<>>
    /\ resolved' = {}
    /\ downloaded' = {}
    /\ startCp' = EmptyCheckpoint
    /\ startOut' = <<>>
    /\ prevDone' = (pc = "done")
    /\ prevOut' = diskOut
    /\ UNCHANGED disk
    /\ tripText' = None
    /\ UNCHANGED fcall

\* The first run on fresh files.  Its checkpoint starts empty and the titles of
\* the list are distinct, so the skip branch of the loop (SkipItem) is never
\* taken in it; it is part of NextRuns below.
Next ==
    \/ LoadState
    \/ Finish
    \/ SetupSelenium
    \/ PortalSearch
    \/ TripSearch
    \/ GoogleSearch
    \/ DriverQuit
    \/ TryDownload
    \/ RecordItem
    \/ CheckpointItem
    \/ WriteOutput

\* one run of the script, to its end or to an uncaught exception
Spec == Init /\ [][Next]_vars

NextRuns ==
    \/ Next
    \/ SkipItem
    \/ Crash
    \/ Restart

\* successive runs on the same files, any of which may be terminated at any point
SpecRuns == Init /\ [][NextRuns]_vars

(***************************************************************************)
(* Specifications of single function calls: the arguments and the          *)
(* environment of the call are drawn in the initial state, the one action  *)
(* is the call.  The batch does not move.                                  *)
(***************************************************************************)
batchVars == <<inputFile, diskCp, diskOut, fs, pc, checkpoint_data,
               updated_guidelines_data, idx, category, pdf_url, pdf_saved_status,
               sessions, run, calls, resolved, downloaded, startCp, startOut,
               prevDone, prevOut, tripText>>

BatchIdle == BatchInit /\ inputFile = <<>>

\* a call about to be made
Pending(fn, args) == [fn |-> fn, args |-> args, pc |-> "call", res |-> Return(None)]

\* links and hrefs of the web search call
UpperLoginLink == <<"https://", "x.org", "/", "LOGIN", "/guide", ".html">>
LoginPdf == <<"https://", "y.org", "/", "login", "/guide", ".pdf">>
RelativePdf == <<"/pdf", "/guide", ".pdf">>
FoundPool == {LoginLink, UpperLoginLink, PmcLink, PageLink, DirectPdf, PmcPdf}
CallHrefs == {PmcPdf, RelativePdf, LoginPdf}

\* what driver.find_elements returns: at most MaxFound result links
FoundLists == UNION {[1..n -> FoundPool] : n \in 0..MaxFound}

\* the environment of a call of google_search_for_pdf: the driver call that
\* raises, the order list(set(...)) gives the links, the fault and the href of
\* the extractor
GoogleEnvs(found) ==
    UNION {
        {[fault |-> "none", links |-> links, xfault |-> xf, xhref |-> xh]
            : xf \in ExtractFaults, xh \in CallHrefs}
        \cup
        {[fault |-> f, links |-> links, xfault |-> "none", xhref |-> PmcPdf]
            : f \in GoogleFaults \ {"none"}}
        : links \in Orderings(LinkSet(found))}

InitGoogle ==
    /\ BatchIdle
    /\ fcall \in {Pending("google_search_for_pdf", [found |-> f]) : f \in FoundLists}

GoogleCall ==
    /\ fcall.fn = "google_search_for_pdf"
    /\ fcall.pc = "call"
    /\ \E env \in GoogleEnvs(fcall.args.found) :
          fcall' = [fn |-> fcall.fn, args |-> fcall.args, env |-> env,
                    pc |-> "returned",
                    res |-> google_search_for_pdf(env.fault, env.links,
                                                  env.xfault, env.xhref)]
    /\ UNCHANGED batchVars

NextGoogle == GoogleCall

\* a call of download_pdf_file(pdf_url, save_path): the URL, what is at
\* save_path before the call (the folder exists: line 114), the outcome of
\* the two transfers and the size class of the response body
CallUrls == {PortalPdf, TripPdf, PmcPdf}
PathStates == {"dir", "empty_file", "file"}
DownloadArgs ==
    {[url |-> u, path |-> p, wget |-> w, requests |-> r, body |-> b]
        : u \in CallUrls, p \in PathStates, w \in WgetOutcomes,
          r \in RequestsOutcomes, b \in Bodies}

InitDownload ==
    /\ BatchIdle
    /\ fcall \in {Pending("download_pdf_file", a) : a \in DownloadArgs}

\* what is at save_path after the call
PathAfter(before, out) == IF out.file = "keep" THEN before ELSE out.file

DownloadCall ==
    /\ fcall.fn = "download_pdf_file"
    /\ fcall.pc = "call"
    /\ LET out == download_pdf_file(fcall.args.wget, fcall.args.requests,
                                    fcall.args.body) IN
       fcall' = [fcall EXCEPT !.pc = "returned", !.res = out,
                              !.args.path = PathAfter(@, out)]
    /\ UNCHANGED batchVars

NextDownload == DownloadCall
SpecDownload == InitDownload /\ [][NextDownload]_vars

\* one call of google_search_for_pdf
SpecGoogle == InitGoogle /\ [][NextGoogle]_vars

(***************************************************************************)
(* Claims.                                                                 *)
(***************************************************************************)
\* C1: a title that is in completed or in failed when the run starts is
\* skipped: the resolver and the downloader are not invoked for it in this
\* run and its record is left as it was loaded.
C1_SkipsCompletedAndFailed ==
    \A i \in 1..Len(updated_guidelines_data) :
        LET t == updated_guidelines_data[i].title IN
        (InSeq(t, startCp.completed) \/ InSeq(t, startCp.failed)) =>
            /\ t \notin resolved
            /\ t \notin downloaded
            /\ updated_guidelines_data[i] = startOut[i]

\* C2: after a run, and after a sequence of runs each of which ran to its end
\* and left its checkpoint to the next, no title is both in completed and in
\* failed of the persisted checkpoint.
C2_CheckpointListsDisjoint ==
    (pc = "done" /\ (run = 1 \/ prevDone)) =>
        Range(diskCp.completed) \cap Range(diskCp.failed) = {}

\* C3: a run that follows a completed run on the same files ends with the
\* output record list the completed run left.
C3_SecondRunSameOutput ==
    (prevDone /\ pc = "done") => diskOut = prevOut

\* C4: a fault of the browser driver inside a strategy never leaves the
\* strategy (it returns its none result), so it never ends the run.
C4_NoStrategyFaultAborts ==
    /\ \A i \in 1..Len(calls) : ~calls[i].exc
    /\ pc = "aborted" => calls = <<>>

\* C5: once control has left the resolver, by return or by an exception, the
\* session the resolver opened is closed.
C5_SessionClosedOnEveryExit ==
    pc \notin ResolvingPcs => sessions = 0

\* C6: at most one browser session is open in a run; it is the session of
\* the title being resolved; none is open at the top of the loop (where a new
\* one is created) nor while an item is downloaded or recorded.
C6_AtMostOneSession ==
    /\ sessions \in {0, 1}
    /\ sessions = 1 =>
          /\ pc \in ResolvingPcs \cup {"aborted"}
          /\ Title \in resolved
          /\ ~ShouldSkip(Title, checkpoint_data)
    /\ pc \in {"start", "loop", "download", "record", "checkpoint", "output", "done"}
          => sessions = 0

\* C6 witness: the second item of the list is being resolved, in its own session
C6_Witness == pc = "google" /\ idx = 2 /\ sessions = 1

\* the pdf link of the first call that returned one, else None
FirstUrl(cs) ==
    IF \E i \in 1..Len(cs) : Truthy(cs[i].url)
    THEN cs[CHOOSE i \in 1..Len(cs) :
                /\ Truthy(cs[i].url)
                /\ \A j \in 1..(i - 1) : ~Truthy(cs[j].url)].url
    ELSE None

StrategyOrder == <<"portal", "trip", "google">>

\* C7: the strategies are invoked in the order portal, curated database, web
\* search; one is invoked only if every earlier one returned no pdf link; the
\* resolver returns the link of the first strategy that yielded one.
C7_StrategyOrderShortCircuit ==
    /\ Len(calls) <= 3
    /\ \A i \in 1..Len(calls) : calls[i].s = StrategyOrder[i]
    /\ \A i, j \in 1..Len(calls) : i < j => (~calls[i].exc /\ ~Truthy(calls[i].url))
    /\ pc = "quit" =>
          /\ pdf_url = FirstUrl(calls)
          /\ Truthy(pdf_url) => calls[Len(calls)].url = pdf_url
          /\ ~Truthy(pdf_url) => Len(calls) = 3

\* C7 witness: the portal yielded a link and the resolver is about to return
\* it, no other strategy invoked
C7_Witness ==
    pc = "quit" /\ Len(calls) = 1 /\ calls[1].s = "portal" /\ pdf_url = PortalPdf

\* C8: at the end of a run the file of every title in completed exists at
\* its destination path.
C8_SavedFilesPersist ==
    pc = "done" =>
        \A t \in Range(checkpoint_data.completed) :
            fs[FolderOf(t)] \in {"file", "empty_file"}

\* C9: when an item is recorded as a failure (appended to failed), no folder
\* exists at its destination path.
C9_NoFolderAtFailure ==
    /\ (pc = "checkpoint" /\ ~pdf_saved_status) => fs[FolderOf(Title)] = "absent"
    /\ (pc = "output" /\ ~pdf_saved_status) =>
          /\ fs[FolderOf(Title)] = "absent"
          /\ checkpoint_data.failed # <<>>
          /\ checkpoint_data.failed[Len(checkpoint_data.failed)] = Title

\* C9 witness: a link was resolved, the folder created and the download
\* failed; the item has just been recorded as a failure
C9_Witness ==
    /\ pc = "output"
    /\ ~pdf_saved_status
    /\ Truthy(pdf_url)
    /\ Title \in downloaded

\* C10: after a run to completion, whatever terminations came before it, a
\* title is in completed exactly when its persisted record has pdf_saved =
\* true, and every title in completed or failed has a persisted record that
\* carries pdf_saved and pdf_link.
C10_CrashConsistent ==
    pc = "done" =>
        \A i \in 1..Len(inputFile) :
            LET t == inputFile[i]
                persisted == diskOut.exists /\ diskOut.data[i].has
            IN  /\ InSeq(t, diskCp.completed) <=>
                      (persisted /\ diskOut.data[i].pdf_saved)
                /\ (InSeq(t, diskCp.completed) \/ InSeq(t, diskCp.failed)) => persisted

\* C11: when resolution of the next item begins (and from then on), the
\* checkpoint file and the output file have been rewritten with the outcome of
\* every item processed so far: the persisted checkpoint holds the title,
\* the persisted record holds its pdf_saved and pdf_link, and both files are
\* equal to what the process has in memory.  Nothing waits for the end.
C11_FlushedAfterEveryItem ==
    (pc \in (RunningPcs \ {"start"}) \cup {"done", "aborted"} /\ idx > 1) =>
        /\ diskCp.exists
        /\ diskCp.completed = checkpoint_data.completed
        /\ diskCp.failed = checkpoint_data.failed
        /\ diskOut.exists
        /\ \A i \in 1..(idx - 1) :
              LET t == updated_guidelines_data[i].title IN
              /\ InSeq(t, diskCp.completed) \/ InSeq(t, diskCp.failed)
              /\ diskOut.data[i].has
              /\ diskOut.data[i] = updated_guidelines_data[i]
              /\ diskOut.data[i].pdf_saved <=> InSeq(t, diskCp.completed)

\* C11 witness: the second item is about to be resolved; the first one failed
\* and is in both files
C11_Witness ==
    /\ pc = "loop"
    /\ idx = 2
    /\ Len(updated_guidelines_data) = 2
    /\ diskOut.exists
    /\ diskOut.data[1].has
    /\ InSeq(updated_guidelines_data[1].title, diskCp.failed)

\* C12: google_search_for_pdf never returns a URL that contains "login", in
\* any case of letters, whatever the result links and whatever link the
\* extractor finds on the candidate page.
C12_NeverReturnsLogin ==
    (fcall.fn = "google_search_for_pdf" /\ fcall.pc = "returned" /\ ~fcall.res.exc) =>
        ~Contains(LowerUrl(fcall.res.val), "login")

\* the titles of the first k records whose pdf_saved is saved, in list order
RECURSIVE TitlesWith(_, _)
TitlesWith(k, saved) ==
    IF k = 0 THEN <<>>
    ELSE LET r == updated_guidelines_data[k] IN
         IF r.pdf_saved = saved THEN Append(TitlesWith(k - 1, saved), r.title)
         ELSE TitlesWith(k - 1, saved)

\* the number of items whose record and checkpoint entry are both written
Recorded == IF pc = "output" THEN idx ELSE idx - 1

\* C13: in a first run, the completed list is exactly the titles of the
\* processed items whose download returned true and the failed list exactly
\* the titles of the others, each in processing order; a download that
\* returned true was invoked with a resolved URL; the record of the item just
\* processed has pdf_saved equal to the download result and pdf_link equal
\* to the resolved URL, or the empty string when none was resolved; and in
\* the end-to-end scenario the web search returns the PDF the PMC extractor
\* found whatever the order of the three links.
C13_OutcomeRecorded ==
    /\ pc \in (ItemPcs \ {"checkpoint"}) \cup {"loop", "done", "aborted"} =>
          /\ checkpoint_data.completed = TitlesWith(Recorded, TRUE)
          /\ checkpoint_data.failed = TitlesWith(Recorded, FALSE)
          /\ \A i \in 1..Recorded : updated_guidelines_data[i].has
    /\ pc \in {"record", "checkpoint", "output"} /\ pdf_saved_status =>
          Title \in downloaded /\ pdf_url # None /\ pdf_url # EmptyStr
    /\ pc \in {"checkpoint", "output"} =>
          /\ updated_guidelines_data[idx].pdf_saved = pdf_saved_status
          /\ updated_guidelines_data[idx].pdf_link =
                IF pdf_url = None THEN EmptyStr ELSE pdf_url
    /\ \A links \in Orderings({LoginLink, PmcLink, PageLink}) :
          google_search_for_pdf("none", links, "none", PmcPdf) = Return(PmcPdf)

\* the end-to-end scenario: the web search resolved the PDF of the PMC
\* article, the download succeeded and the item is recorded as saved
C13_Witness ==
    /\ pc = "output"
    /\ pdf_url = PmcPdf
    /\ pdf_saved_status
    /\ updated_guidelines_data[idx].pdf_saved
    /\ updated_guidelines_data[idx].pdf_link = PmcPdf
    /\ InSeq(Title, checkpoint_data.completed)
    /\ ~InSeq(Title, checkpoint_data.failed)

\* C14: a run that has ended has finished the loop, and every title of the
\* list is then in completed or in failed (finite form of: the loop
\* eventually finishes with every item recorded or skipped).
C14_EndsWithEveryItemRecorded ==
    pc \in {"done", "aborted"} =>
        /\ pc = "done"
        /\ \A i \in 1..Len(updated_guidelines_data) :
              LET t == updated_guidelines_data[i].title IN
              InSeq(t, checkpoint_data.completed) \/ InSeq(t, checkpoint_data.failed)

\* C15: when download_pdf_file has returned true, by wget or by the
\* requests fallback, the file at save_path has at least one byte.
C15_TrueImpliesNonEmptyFile ==
    (fcall.fn = "download_pdf_file" /\ fcall.pc = "returned" /\ fcall.res.ret) =>
        fcall.args.path = "file"

\* the displayed title, trimmed, is the expected title up to letter case
SameTitle(displayed, expected) ==
    LET d == Strip(displayed) IN
    /\ Len(d) = Len(expected)
    /\ \A i \in 1..Len(d) : LowerChar(d[i]) = LowerChar(expected[i])

\* C16: while an item is being resolved, a search_trip_database call that
\* returned for a result card whose trimmed title differs from the expected
\* title up to letter case gave no pdf link and left the category none; a
\* pdf link from that call, and a non-none category of the resolver, occur
\* only after a search_trip_database call that returned on a matching title.
C16_TripMismatchReturnsNone ==
    pc \in ResolvingPcs =>
        /\ \A i \in 1..Len(calls) :
              (calls[i].s = "trip" /\ ~calls[i].exc) =>
                  /\ tripText # None
                  /\ ~SameTitle(tripText, Title) =>
                        calls[i].url = None /\ category = None
                  /\ calls[i].url # None => SameTitle(tripText, Title)
        /\ category # None =>
              /\ \E i \in 1..Len(calls) : calls[i].s = "trip" /\ ~calls[i].exc
              /\ tripText # None
              /\ SameTitle(tripText, Title)

\* the card shows another title: the web search is next, with no category
C16_Witness ==
    /\ pc = "google"
    /\ tripText = <<"Z">>
    /\ calls[Len(calls)].s = "trip"
    /\ ~calls[Len(calls)].exc
    /\ category = None
    /\ pdf_url = None

RECURSIVE ResultOrder(_, _)
\* the links of the results in result order, fragment removed, first
\* occurrences only, login links left out
ResultOrder(results, seen) ==
    IF results = <<>> THEN <<>>
    ELSE LET url == SplitFirst(Head(results), "#") IN
         IF url \in seen \/ IsLogin(url) THEN ResultOrder(Tail(results), seen)
         ELSE <<url>> \o ResultOrder(Tail(results), seen \cup {url})

\* the first element of s that satisfies Test, or None
FirstWith(s, Test(_)) ==
    IF \E i \in 1..Len(s) : Test(s[i])
    THEN s[CHOOSE i \in 1..Len(s) : Test(s[i]) /\ \A j \in 1..(i - 1) : ~Test(s[j])]
    ELSE None

\* the selection over the ordered result list: the first direct PDF link,
\* else the PMC extractor on the first PMC link, else the generic extractor
\* on the first link, else none
ChoiceInResultOrder(found, xfault, xhref) ==
    LET s == ResultOrder(Top3(found), {})
        IsAny(url) == TRUE
        pdf == FirstWith(s, IsPdf)
        pmc == FirstWith(s, IsPmc)
        page == FirstWith(s, IsAny)
    IN  IF pdf # None THEN Return(pdf)
        ELSE IF pmc # None THEN Caught(extract_pmc_pdf(pmc, xfault, xhref))
        ELSE IF page # None THEN Caught(extract_pdf_from_webpage(page, xfault, xhref))
        ELSE Return(None)

\* C17: when no driver call of google_search_for_pdf itself raises, the
\* value it returns is the selection over the top three results taken in
\* search-result order, so it is determined by the ordered result list.
C17_ChoiceFollowsResultOrder ==
    (/\ fcall.fn = "google_search_for_pdf"
     /\ fcall.pc = "returned"
     /\ fcall.env.fault = "none") =>
        fcall.res = ChoiceInResultOrder(fcall.args.found, fcall.env.xfault,
                                        fcall.env.xhref)

\* C18: a call of download_pdf_file always tries wget first and tries the
\* requests fallback exactly when wget raised; it returns true iff wget
\* succeeded or the fallback got a good status and wrote the file without
\* error, hence false for an HTTP error status, a transport error and any
\* other fault of the fallback; no exception leaves the function.
C18_FallbackProtocol ==
    (fcall.fn = "download_pdf_file" /\ fcall.pc = "returned") =>
        LET a == fcall.args
            r == fcall.res
        IN  /\ Len(r.attempts) >= 1 /\ r.attempts[1] = "wget"
            /\ InSeq("requests", r.attempts) <=> a.wget = "raise"
            /\ a.wget = "ok" => r.attempts = <<"wget">>
            /\ r.ret <=> (a.wget = "ok" \/ a.requests = "ok")
            /\ (a.wget = "raise" /\ a.requests \in
                    {"http_error", "request_exception", "open_error", "write_error"})
                  => ~r.ret
            /\ ~r.exc

\* wget raised and the fallback got an HTTP error status: false is returned
C18_Witness ==
    /\ fcall.fn = "download_pdf_file"
    /\ fcall.pc = "returned"
    /\ fcall.args.wget = "raise"
    /\ fcall.args.requests = "http_error"
    /\ fcall.res.attempts = <<"wget", "requests">>
    /\ ~fcall.res.ret

\* C19: the step that follows a resolution with no URL creates and changes
\* no folder, does not invoke the downloader and leaves the item unsaved on
\* its way to being recorded; such an item is recorded as failed without a
\* download ever invoked for it.
C19_NoUrlNoDownload ==
    /\ [][(pc = "download" /\ pdf_url = None) =>
             /\ fs' = fs
             /\ downloaded' = downloaded
             /\ ~pdf_saved_status'
             /\ pc' = "record"]_vars
    /\ [](pc \in {"record", "checkpoint", "output"} /\ pdf_url = None =>
             /\ Title \notin downloaded
             /\ ~pdf_saved_status
             /\ pc = "output" =>
                   /\ InSeq(Title, checkpoint_data.failed)
                   /\ ~InSeq(Title, checkpoint_data.completed)
                   /\ ~updated_guidelines_data[idx].pdf_saved)

\* an item resolved to no URL has been recorded as failed with no download
C19_Witness ==
    /\ pc = "output"
    /\ pdf_url = None
    /\ Title \notin downloaded
    /\ InSeq(Title, checkpoint_data.failed)

\* s is an initial part of t
IsPrefix(s, t) == Len(s) <= Len(t) /\ SubSeq(t, 1, Len(s)) = s

\* C20: once the list is loaded, every record with pdf_saved true has a
\* non-empty pdf_link; a step of the loop changes no record but the current
\* item's, keeps the list's length and titles, and only appends to the
\* completed and failed lists.
C20_RecordInvariant ==
    /\ [](pc # "start" =>
             \A i \in 1..Len(updated_guidelines_data) :
                 LET r == updated_guidelines_data[i] IN
                 (r.has /\ r.pdf_saved) =>
                     r.pdf_link # EmptyStr /\ r.pdf_link # None)
    /\ [][pc # "start" =>
             /\ Len(updated_guidelines_data') = Len(updated_guidelines_data)
             /\ \A i \in 1..Len(updated_guidelines_data) :
                   /\ updated_guidelines_data'[i].title = updated_guidelines_data[i].title
                   /\ i # idx => updated_guidelines_data'[i] = updated_guidelines_data[i]
             /\ IsPrefix(checkpoint_data.completed, checkpoint_data'.completed)
             /\ IsPrefix(checkpoint_data.failed, checkpoint_data'.failed)]_vars

\* the first of two items is saved with its link; the second is untouched
C20_Witness ==
    /\ pc = "loop"
    /\ idx = 2
    /\ Len(updated_guidelines_data) = 2
    /\ updated_guidelines_data[1].pdf_saved
    /\ updated_guidelines_data[1].pdf_link = PortalPdf
    /\ ~updated_guidelines_data[2].has
    /\ checkpoint_data.completed = <<updated_guidelines_data[1].title>>

====
